---------------------------- MODULE Spec2Model ----------------------------
(* louis: braille graphics library (src/louis.h).                          *)
(*                                                                          *)
(* The model follows the C source operation by operation.  C `float` is     *)
(* modelled as IEEE-754 binary32 with round-to-nearest-even, every          *)
(* operation rounded on its own (FLT_EVAL_METHOD 0, no contraction), which  *)
(* is what the source compiles to on x86-64.  A float is a pair <<m, e>>    *)
(* standing for m * 2^e with 2^23 <= |m| < 2^24, or <<0, 0>> for zero.      *)
(* Exponent overflow, subnormals, infinities and NaN are outside the        *)
(* coordinate ranges the model draws its inputs from.                       *)
EXTENDS Integers, Sequences, FiniteSets, TLC

---------------------------------------------------------------------------
(* Integer helpers                                                          *)

Pow2(n) == 2^n

Sgn(i) == IF i < 0 THEN -1 ELSE IF i > 0 THEN 1 ELSE 0

Abs(i) == IF i < 0 THEN -i ELSE i

\* C integer division truncates toward zero; TLA+ \div floors.
TruncDiv(a, b) == IF a >= 0 THEN a \div b ELSE -((-a) \div b)

RECURSIVE BitLen(_)
BitLen(n) == IF n = 0 THEN 0 ELSE 1 + BitLen(n \div 2)

RECURSIVE BitAnd(_, _)
BitAnd(a, b) ==
    IF a = 0 \/ b = 0 THEN 0
    ELSE (a % 2) * (b % 2) + 2 * BitAnd(a \div 2, b \div 2)

RECURSIVE BitOr(_, _)
BitOr(a, b) ==
    IF a = 0 THEN b
    ELSE IF b = 0 THEN a
    ELSE (IF a % 2 = 1 \/ b % 2 = 1 THEN 1 ELSE 0) + 2 * BitOr(a \div 2, b \div 2)

---------------------------------------------------------------------------
(* binary32 arithmetic                                                      *)

FZero == <<0, 0>>

\* Round sgn * (mag + f) * 2^e to binary32, nearest-even, where 0 <= f < 1
\* and f > 0 exactly when sticky.  Callers pass sticky only with
\* BitLen(mag) > 24, so the discarded part is compared against half an ulp.
RoundF(sgn, mag, e, sticky) ==
    IF mag = 0 THEN FZero
    ELSE LET n == BitLen(mag) IN
         IF n <= 24
         THEN <<sgn * mag * Pow2(24 - n), e - (24 - n)>>
         ELSE LET k    == n - 24
                  q    == mag \div Pow2(k)
                  r    == mag % Pow2(k)
                  half == Pow2(k - 1)
                  up   == r > half \/ (r = half /\ (sticky \/ q % 2 = 1))
                  q2   == IF up THEN q + 1 ELSE q
              IN  IF q2 = Pow2(24) THEN <<sgn * Pow2(23), e + k + 1>>
                                   ELSE <<sgn * q2, e + k>>

\* (float)i for an int i
IntToF(i) == RoundF(Sgn(i), Abs(i), 0, FALSE)

\* the float k / 2^d (exact for the small k used as inputs)
Dyadic(k, d) == RoundF(Sgn(k), Abs(k), -d, FALSE)

FNeg(a) == <<-a[1], a[2]>>

\* a + b
FAdd(a, b) ==
    IF a[1] = 0 THEN b
    ELSE IF b[1] = 0 THEN a
    ELSE LET hi  == IF a[2] >= b[2] THEN a ELSE b
             lo  == IF a[2] >= b[2] THEN b ELSE a
             d   == hi[2] - lo[2]
             A   == hi[1] * 8
             Bf  == Abs(lo[1]) * 8
             Bq  == IF d >= 28 THEN 0 ELSE Bf \div Pow2(d)
             st  == IF d >= 28 THEN TRUE ELSE Bf % Pow2(d) # 0
             S   == A + Sgn(lo[1]) * Bq
             opp == Sgn(hi[1]) # Sgn(lo[1])
         IN  IF st /\ opp
             THEN RoundF(Sgn(A), Abs(S) - 1, hi[2] - 3, TRUE)
             ELSE RoundF(Sgn(S), Abs(S), hi[2] - 3, st)

\* a - b
FSub(a, b) == FAdd(a, FNeg(b))

\* a * b: the 48-bit product H * 2^24 + L from 12-bit limbs
FMul(a, b) ==
    IF a[1] = 0 \/ b[1] = 0 THEN FZero
    ELSE LET ma  == Abs(a[1])
             mb  == Abs(b[1])
             ah  == ma \div 4096
             al  == ma % 4096
             bh  == mb \div 4096
             bl  == mb % 4096
             mid == ah * bl + al * bh
             L1  == al * bl + (mid % 4096) * 4096
             H   == ah * bh + mid \div 4096 + L1 \div Pow2(24)
             L   == L1 % Pow2(24)
         IN  RoundF(Sgn(a[1]) * Sgn(b[1]), H * 4 + L \div Pow2(22),
                    a[2] + b[2] + 22, L % Pow2(22) # 0)

\* n more quotient bits of r / d by long division: <<quotient, remainder>>
RECURSIVE LongDiv(_, _, _, _)
LongDiv(q, r, d, n) ==
    IF n = 0 THEN <<q, r>>
    ELSE IF 2 * r >= d THEN LongDiv(2 * q + 1, 2 * r - d, d, n - 1)
                       ELSE LongDiv(2 * q, 2 * r, d, n - 1)

\* a / b, b nonzero
FDiv(a, b) ==
    IF a[1] = 0 THEN FZero
    ELSE LET ma == Abs(a[1])
             mb == Abs(b[1])
             qr == LongDiv(ma \div mb, ma % mb, mb, 26)
         IN  RoundF(Sgn(a[1]) * Sgn(b[1]), qr[1], a[2] - b[2] - 26, qr[2] # 0)

\* a < b and a > b (the sign of the exact difference survives rounding)
FLt(a, b) == FSub(a, b)[1] < 0

FGt(a, b) == FSub(a, b)[1] > 0

FOne == IntToF(1)

---------------------------------------------------------------------------
(* Miscellaneous utility functions                                          *)

\* static float fAbs(float a, float b)
fAbs(a, b) == IF FGt(a, b) THEN FSub(a, b) ELSE FSub(b, a)

\* static int fRound(float n): (int)(n + 0.5), the sum taken in double
\* (exact for a binary32 n), the conversion truncating toward zero.
fRound(n) ==
    LET m == n[1]
        e == n[2]
    IN  IF m = 0 THEN 0
        ELSE IF e >= 0 THEN m * Pow2(e)
        ELSE IF e < -30 THEN 0
        ELSE TruncDiv(m + Pow2(-e - 1), Pow2(-e))


---------------------------------------------------------------------------
(* Bounds of the model                                                      *)

\* Surfaces are 1..MaxWidth by 1..MaxHeight cells.
MaxWidth == 3

MaxHeight == 2

\* drawLine is run on a cleared surface of LineWidth by LineHeight cells.
LineWidth == 4

LineHeight == 2

\* Bitmap files are 1..MaxBitmap by 1..MaxBitmap pixels.
MaxBitmap == 2

---------------------------------------------------------------------------
(* State                                                                    *)

VARIABLES
    s,             \* the Surface drawn to: [width, height, data]; C offset i is data[i + 1]
    bitmap,        \* the Surface returned by loadBitmap, one byte per pixel
    brailleTab,    \* static int brailleTab[256]; entry i is brailleTab[i + 1]
    screenBuffer,  \* unsigned char *screenBuffer: [state, size]
    out,           \* the bytes the last call wrote to file descriptor 1
    line,          \* the activation of drawLine: its parameters, locals and position
    last,          \* the last completed call: [op, args, ret, pre (the surface it was given)]
    fault          \* the memory error of the last call, "none" without one

vars == <<s, bitmap, brailleTab, screenBuffer, out, line, last, fault>>

\* static int braillePositionVals[8]
braillePositionVals == <<64, 128, 4, 32, 2, 16, 1, 8>>

\* A width x height Surface whose data block holds the bytes of d.
Surface(w, h, d) == [width |-> w, height |-> h, data |-> d]

\* clearSurface: every byte of the block set to 0
clearSurface(surf) ==
    [surf EXCEPT !.data = [i \in 1..(surf.width * surf.height) |-> 0]]

\* initSurface with a terminal of w columns and h rows
initSurface(w, h) == clearSurface(Surface(w, h, [i \in 1..(w * h) |-> 0]))

NoBitmap == Surface(0, 0, <<>>)

NoLine == [active |-> FALSE]

NoCall == [op |-> "none", args |-> <<>>, ret |-> 0, pre |-> <<>>]

SurfaceSizes == (1..MaxWidth) \X (1..MaxHeight)

\* Cell contents that drawPoint calls can build up on any surface.
SampleBytes == {0, 90, 165, 255}

---------------------------------------------------------------------------
(* drawPoint                                                                *)

\* Mutant of CellOffset: the rows are not flipped (Y grows downward).
CellOffsetNoFlip(surf, x, y) == ((y \div 4) * surf.width) + (x \div 2)

\* s->data + (s->width * s->height) - s->width - ((y / 4) * s->width) + (x / 2)
CellOffset(surf, x, y) ==
    (surf.width * surf.height) - surf.width - ((y \div 4) * surf.width) + (x \div 2)

\* braillePositionVals[((y % 4) * 2) + (x % 2)]
PositionVal(x, y) == braillePositionVals[((y % 4) * 2) + (x % 2) + 1]

\* *p &= ~positionVal  or  *p |= positionVal, stored back to an unsigned char
SetDot(c, positionVal, value) ==
    IF value = 0 THEN BitAnd(c, 255 - positionVal) ELSE BitOr(c, positionVal)

\* int drawPoint(Surface *s, float fx, float fy, int value): [ret, s]
drawPoint(surf, fx, fy, value) ==
    LET x == fRound(fx)
        y == fRound(fy)
    IN  IF x < 0 \/ y < 0 \/ x >= surf.width * 2 \/ y >= surf.height * 4
        THEN [ret |-> -1, s |-> surf]
        ELSE LET off == CellOffset(surf, x, y)
             IN  [ret |-> 0,
                  s   |-> [surf EXCEPT !.data[off + 1] =
                              SetDot(@, PositionVal(x, y), value)]]

\* Coordinates handed to drawPoint: the quarters from -2 to n + 1.
PointCoords(n) == {Dyadic(k, 2) : k \in (-8)..(4 * n + 4)}

InitPoint ==
    /\ \E wh \in SurfaceSizes, b \in SampleBytes :
          s = Surface(wh[1], wh[2], [i \in 1..(wh[1] * wh[2]) |-> b])
    /\ bitmap = NoBitmap
    /\ brailleTab = [i \in 1..256 |-> 0]
    /\ screenBuffer = [state |-> "null", size |-> 0]
    /\ out = <<>>
    /\ line = NoLine
    /\ last = NoCall
    /\ fault = "none"

DrawPoint(fx, fy, value) ==
    /\ LET r == drawPoint(s, fx, fy, value)
       IN  /\ s' = r.s
           /\ last' = [op |-> "drawPoint", args |-> <<fx, fy, value>>,
                       ret |-> r.ret, pre |-> s]
    /\ UNCHANGED <<bitmap, brailleTab, screenBuffer, out, line, fault>>

\* drawPoint is applied once to each sampled surface.
NextPoint ==
    /\ last.op = "none"
    /\ \E fx \in PointCoords(2 * s.width), fy \in PointCoords(4 * s.height),
          value \in {0, 1, 2} : DrawPoint(fx, fy, value)

SpecPoint == InitPoint /\ [][NextPoint]_vars


---------------------------------------------------------------------------
(* Claims about drawPoint                                                   *)

Bits == {1, 2, 4, 8, 16, 32, 64, 128}

HasBit(c, b) == (c \div b) % 2 = 1

\* Round-half-up of a float, computed exactly: floor(n + 1/2).
RoundHalfUp(n) ==
    LET m == n[1]
        e == n[2]
    IN  IF m = 0 THEN 0
        ELSE IF e >= 0 THEN m * Pow2(e)
        ELSE IF e < -30 THEN 0
        ELSE (m + Pow2(-e - 1)) \div Pow2(-e)

\* The pixel ranges of a surface.
PixelsX(surf) == 0..(2 * surf.width - 1)

PixelsY(surf) == 0..(4 * surf.height - 1)

\* C1: whenever x or y, rounded half-up, lies outside 0 <= x < width*2,
\* 0 <= y < height*4, drawPoint returns -1 and leaves every cell byte
\* unchanged.
C1_OutOfRangeRejected ==
    last.op = "drawPoint" =>
        LET x == RoundHalfUp(last.args[1])
            y == RoundHalfUp(last.args[2])
        IN  (x \notin PixelsX(last.pre) \/ y \notin PixelsY(last.pre))
                => (last.ret = -1 /\ s = last.pre)

\* C2: for an in-range integer pixel (x, y), drawPoint returns 0 and changes
\* at most the bit braillePositionVals[(y mod 4)*2 + (x mod 2)] of the cell at
\* offset (height - 1 - y div 4)*width + x div 2: that bit is set when value
\* is true and clear when it is false; every other bit of every cell keeps
\* its value.
C2_DrawPointOneBit ==
    last.op = "drawPoint" =>
        \A x \in PixelsX(last.pre), y \in PixelsY(last.pre) :
            (last.args[1] = IntToF(x) /\ last.args[2] = IntToF(y)) =>
                LET pre == last.pre
                    off == (pre.height - 1 - (y \div 4)) * pre.width + (x \div 2)
                    bit == braillePositionVals[(y % 4) * 2 + (x % 2) + 1]
                IN  /\ last.ret = 0
                    /\ s.width = pre.width /\ s.height = pre.height
                    /\ DOMAIN s.data = DOMAIN pre.data
                    /\ \A i \in DOMAIN pre.data, b \in Bits :
                          HasBit(s.data[i], b) =
                              IF i = off + 1 /\ b = bit
                              THEN last.args[3] # 0
                              ELSE HasBit(pre.data[i], b)

\* C2 witness: a dot of the upper cell row of a 2 x 2 surface was cleared.
C2_Witness ==
    /\ last.op = "drawPoint"
    /\ last.args = <<IntToF(3), IntToF(5), 0>>
    /\ last.ret = 0
    /\ s # last.pre


---------------------------------------------------------------------------
(* drawRect                                                                 *)

\* The drawPoint calls of a loop nest, made in order; each int coordinate is
\* converted to float by the call.  pts[k] = <<x, y, value>>.
RECURSIVE PlotAll(_, _, _)
PlotAll(surf, pts, k) ==
    IF k > Len(pts) THEN surf
    ELSE PlotAll(drawPoint(surf, IntToF(pts[k][1]), IntToF(pts[k][2]), pts[k][3]).s,
                 pts, k + 1)

\* for (i < h) for (j < w) drawPoint(s, x + j, y + i, 1)
RectFillPoints(x, y, w, h) ==
    IF w <= 0 \/ h <= 0 THEN <<>>
    ELSE [k \in 1..(w * h) |-> <<x + ((k - 1) % w), y + ((k - 1) \div w), 1>>]

\* for (i < w) { drawPoint(s, x + i, y, 1); drawPoint(s, x + i, y + h - 1, 1); }
RectRowPoints(x, y, w, h) ==
    IF w <= 0 THEN <<>>
    ELSE [k \in 1..(2 * w) |->
            IF k % 2 = 1 THEN <<x + ((k - 1) \div 2), y, 1>>
                         ELSE <<x + ((k - 1) \div 2), y + h - 1, 1>>]

\* Mutant of RectColumnPoints: the right column is drawn at x + w.
RectColumnPointsOffByOne(x, y, w, h) ==
    IF h <= 2 THEN <<>>
    ELSE [k \in 1..(2 * (h - 2)) |->
            IF k % 2 = 1 THEN <<x, y + 1 + ((k - 1) \div 2), 1>>
                         ELSE <<x + w, y + 1 + ((k - 1) \div 2), 1>>]

\* for (i = 1; i < h - 1) { drawPoint(s, x, y + i, 1); drawPoint(s, x + w - 1, y + i, 1); }
RectColumnPoints(x, y, w, h) ==
    IF h <= 2 THEN <<>>
    ELSE [k \in 1..(2 * (h - 2)) |->
            IF k % 2 = 1 THEN <<x, y + 1 + ((k - 1) \div 2), 1>>
                         ELSE <<x + w - 1, y + 1 + ((k - 1) \div 2), 1>>]

\* void drawRect(Surface *s, int x, int y, int w, int h, int fill)
drawRect(surf, x, y, w, h, fill) ==
    IF fill # 0
    THEN PlotAll(surf, RectFillPoints(x, y, w, h), 1)
    ELSE PlotAll(PlotAll(surf, RectRowPoints(x, y, w, h), 1),
                 RectColumnPoints(x, y, w, h), 1)

InitRect ==
    /\ \E wh \in SurfaceSizes : s = initSurface(wh[1], wh[2])
    /\ bitmap = NoBitmap
    /\ brailleTab = [i \in 1..256 |-> 0]
    /\ screenBuffer = [state |-> "null", size |-> 0]
    /\ out = <<>>
    /\ line = NoLine
    /\ last = NoCall
    /\ fault = "none"

DrawRect(x, y, w, h, fill) ==
    /\ s' = drawRect(s, x, y, w, h, fill)
    /\ last' = [op |-> "drawRect", args |-> <<x, y, w, h, fill>>, ret |-> 0, pre |-> s]
    /\ UNCHANGED <<bitmap, brailleTab, screenBuffer, out, line, fault>>

\* drawRect is applied once to each cleared surface.
NextRect ==
    /\ last.op = "none"
    /\ \E x \in (-1)..(2 * s.width), y \in (-1)..(4 * s.height),
          w \in 0..(2 * s.width + 1), h \in 0..(4 * s.height + 1), fill \in {0, 1} :
           DrawRect(x, y, w, h, fill)

SpecRect == InitRect /\ [][NextRect]_vars

---------------------------------------------------------------------------
(* Claims about drawRect                                                    *)

\* Dot (x, y) of a surface, read as section 4.1 of the specification lays
\* the dots out.
DotLit(surf, x, y) ==
    HasBit(surf.data[(surf.height - 1 - (y \div 4)) * surf.width + (x \div 2) + 1],
           braillePositionVals[(y % 4) * 2 + (x % 2) + 1])

LitDots(surf) ==
    {p \in PixelsX(surf) \X PixelsY(surf) : DotLit(surf, p[1], p[2])}

\* C5: on a cleared surface, with w >= 1, h >= 1 and the whole rectangle in
\* range, drawRect with fill lights exactly the w*h dots (x+j, y+i) and
\* drawRect without fill lights exactly those with i in {0, h-1} or j in
\* {0, w-1}; for w = h = 3 that is 9 and 8 dots.
C5_RectDots ==
    last.op = "drawRect" =>
        LET x == last.args[1]
            y == last.args[2]
            w == last.args[3]
            h == last.args[4]
            fill == last.args[5]
            all == {<<x + j, y + i>> : j \in 0..(w - 1), i \in 0..(h - 1)}
            rim == {<<x + j, y + i>> : <<j, i>> \in
                       {ji \in (0..(w - 1)) \X (0..(h - 1)) :
                           ji[2] \in {0, h - 1} \/ ji[1] \in {0, w - 1}}}
        IN  (/\ LitDots(last.pre) = {}
             /\ w >= 1 /\ h >= 1 /\ x >= 0 /\ y >= 0
             /\ x + w <= 2 * s.width /\ y + h <= 4 * s.height)
            => /\ LitDots(s) = (IF fill # 0 THEN all ELSE rim)
               /\ (w = 3 /\ h = 3) =>
                     Cardinality(LitDots(s)) = (IF fill # 0 THEN 9 ELSE 8)

\* C5 witness: the 3 x 3 outline at (2, 2) lit its 8 perimeter dots.
C5_Witness ==
    /\ last.op = "drawRect"
    /\ last.args = <<2, 2, 3, 3, 0>>
    /\ Cardinality(LitDots(s)) = 8
    /\ ~DotLit(s, 3, 3)


---------------------------------------------------------------------------
(* drawLine                                                                 *)

\* The locals of drawLine before its first drawPoint.  With x1 == x2 the
\* slope and the intercept stay uninitialised and are never read.
LineLocals(x1, y1, x2, y2) ==
    IF x1 = x2
    THEN [x1 |-> x1, y1 |-> y1, x2 |-> x2, y2 |-> y2, inf |-> 1,
          slope |-> FZero, yint |-> FZero]
    ELSE LET slope == FDiv(FSub(y2, y1), FSub(x2, x1))
         IN  [x1 |-> x1, y1 |-> y1, x2 |-> x2, y2 |-> y2, inf |-> 0,
              slope |-> slope, yint |-> FSub(y1, FMul(slope, x1))]

\* while (fAbs(x1, x2) > 1 || fAbs(y1, y2) > 1)
LineCond(l) == FGt(fAbs(l.x1, l.x2), FOne) \/ FGt(fAbs(l.y1, l.y2), FOne)

\* v += (v < target) ? 1.0f : -1.0f
StepToward(v, target) == FAdd(v, IF FLt(v, target) THEN FOne ELSE FNeg(FOne))

\* The body of the loop up to its drawPoint: the new x1, y1.
LineBody(l) ==
    IF l.inf # 0
    THEN [l EXCEPT !.y1 = StepToward(l.y1, l.y2)]
    ELSE IF FLt(l.slope, FOne)
    THEN LET nx == StepToward(l.x1, l.x2)
         IN  [l EXCEPT !.x1 = nx, !.y1 = FAdd(FMul(nx, l.slope), l.yint)]
    ELSE LET ny == StepToward(l.y1, l.y2)
         IN  [l EXCEPT !.y1 = ny, !.x1 = FDiv(FSub(ny, l.yint), l.slope)]

\* The loop of drawLine, run to its exit (at most fuel iterations).
RECURSIVE LineLoop(_, _, _)
LineLoop(surf, l, fuel) ==
    IF fuel = 0 \/ ~LineCond(l) THEN surf
    ELSE LET l2 == LineBody(l)
         IN  LineLoop(drawPoint(surf, l2.x1, l2.y1, 1).s, l2, fuel - 1)

\* void drawLine(Surface *s, float x1, float y1, float x2, float y2), as one
\* call; between whole-pixel endpoints of the surface the loop makes fewer
\* iterations than the surface has pixel rows and columns.
drawLine(surf, x1, y1, x2, y2) ==
    LineLoop(drawPoint(surf, x1, y1, 1).s, LineLocals(x1, y1, x2, y2),
             2 * surf.width + 4 * surf.height)

\* Endpoints handed to drawLine: x in halves, y in whole pixels.
LineCoordsX == {Dyadic(k, 1) : k \in 0..(4 * LineWidth - 1)}

LineCoordsY == {IntToF(k) : k \in 0..(4 * LineHeight - 1)}

InitLine ==
    /\ s = initSurface(LineWidth, LineHeight)
    /\ bitmap = NoBitmap
    /\ brailleTab = [i \in 1..256 |-> 0]
    /\ screenBuffer = [state |-> "null", size |-> 0]
    /\ out = <<>>
    /\ line = NoLine
    /\ last = NoCall
    /\ fault = "none"

\* Entry of drawLine up to the first drawPoint.
DrawLineBegin(x1, y1, x2, y2) ==
    /\ s' = drawPoint(s, x1, y1, 1).s
    /\ line' = [active  |-> TRUE,
                l       |-> LineLocals(x1, y1, x2, y2),
                args    |-> <<x1, y1, x2, y2>>,
                pre     |-> s,
                prev    |-> <<x1, y1>>,
                axis    |-> "none",
                visited |-> {<<x1, y1>>},
                revisit |-> FALSE]
    /\ UNCHANGED <<bitmap, brailleTab, screenBuffer, out, last, fault>>

\* One iteration of the loop.
DrawLineStep ==
    /\ line.active
    /\ LineCond(line.l)
    /\ LET l2 == LineBody(line.l)
       IN  /\ s' = drawPoint(s, l2.x1, l2.y1, 1).s
           /\ line' = [line EXCEPT
                          !.l = l2,
                          !.prev = <<line.l.x1, line.l.y1>>,
                          !.axis = IF line.l.inf # 0 \/ ~FLt(line.l.slope, FOne)
                                   THEN "y" ELSE "x",
                          !.visited = @ \cup {<<l2.x1, l2.y1>>},
                          !.revisit = <<l2.x1, l2.y1>> \in line.visited]
    /\ UNCHANGED <<bitmap, brailleTab, screenBuffer, out, last, fault>>

\* The loop condition fails and drawLine returns.
DrawLineReturn ==
    /\ line.active
    /\ ~LineCond(line.l)
    /\ line' = [line EXCEPT !.active = FALSE]
    /\ last' = [op |-> "drawLine", args |-> line.args, ret |-> 0, pre |-> line.pre]
    /\ UNCHANGED <<s, bitmap, brailleTab, screenBuffer, out, fault>>

\* drawLine is called once on the cleared surface and runs alone.
DrawLineCall ==
    /\ ~line.active
    /\ last.op = "none"
    /\ \E x1 \in LineCoordsX, y1 \in LineCoordsY,
          x2 \in LineCoordsX, y2 \in LineCoordsY : DrawLineBegin(x1, y1, x2, y2)

NextLine ==
    \/ DrawLineCall
    \/ DrawLineStep
    \/ DrawLineReturn

SpecLine == InitLine /\ [][NextLine]_vars


---------------------------------------------------------------------------
(* Claims about drawLine                                                    *)

\* The whole pixels of the line surface, as floats.
WholeX == {IntToF(k) : k \in 0..(2 * LineWidth - 1)}

WholeArgs(a) == a[1] \in WholeX /\ a[3] \in WholeX

\* The dot a sample is plotted at.
Pixel(p) == <<fRound(p[1]), fRound(p[2])>>

\* C7: between whole-pixel endpoints inside the surface, drawLine and the
\* call with the endpoints exchanged, each on a cleared surface, light the
\* same dots, except possibly the dots of the two endpoints themselves.
C7_LineSymmetry ==
    (last.op = "drawLine" /\ WholeArgs(last.args)) =>
        LET a    == last.args
            back == drawLine(last.pre, a[3], a[4], a[1], a[2])
            ends == {Pixel(<<a[1], a[2]>>), Pixel(<<a[3], a[4]>>)}
            fwd  == LitDots(s)
            rev  == LitDots(back)
        IN  ((fwd \ rev) \cup (rev \ fwd)) \subseteq ends

\* C8: the loop of drawLine never comes back to a position (x1, y1) it has
\* been at; a loop that does never ends, since each iteration depends on
\* x1, y1 alone.
C8_NoRevisit == line.active => ~line.revisit

\* C9: between whole-pixel endpoints, a step is along X when |slope| < 1 and
\* along Y otherwise, and two consecutively plotted samples are at most one
\* pixel apart in X and in Y.
C9_NoGaps ==
    (line.active /\ WholeArgs(line.args) /\ line.axis # "none") =>
        LET p == Pixel(line.prev)
            q == Pixel(<<line.l.x1, line.l.y1>>)
            shallow == line.l.inf = 0 /\ FLt(fAbs(line.l.slope, FZero), FOne)
        IN  /\ Abs(q[1] - p[1]) <= 1
            /\ Abs(q[2] - p[2]) <= 1
            /\ line.axis = (IF shallow THEN "x" ELSE "y")


---------------------------------------------------------------------------
(* loadBitmap and drawBitmap                                                *)

\* static int littleToBigEndian(unsigned char *src): the four bytes at C
\* offset off of buf (byte 3 below 128 in every file of the model)
littleToBigEndian(buf, off) ==
    BitOr(BitOr(BitOr(buf[off + 1], buf[off + 2] * 256), buf[off + 3] * 65536),
          buf[off + 4] * 16777216)

\* The four bytes of a small int, least significant first.
Int32Bytes(n) == <<n % 256, (n \div 256) % 256, (n \div 65536) % 256, 0>>

\* A 24-bit BMP file without row padding: a 54-byte header with the data
\* offset at 0x0A, the width at 0x12 and the height at 0x16, then one
\* blue, green, red triple per pixel.  px[k] = <<r, g, b>>.
BmpFile(w, h, px) ==
    LET header == [i \in 1..54 |->
                     IF i \in 11..14 THEN Int32Bytes(54)[i - 10]
                     ELSE IF i \in 19..22 THEN Int32Bytes(w)[i - 18]
                     ELSE IF i \in 23..26 THEN Int32Bytes(h)[i - 22]
                     ELSE 0]
        data   == [i \in 1..(3 * w * h) |->
                     LET c == px[((i - 1) \div 3) + 1]
                     IN  IF (i - 1) % 3 = 0 THEN c[3]
                         ELSE IF (i - 1) % 3 = 1 THEN c[2] ELSE c[1]]
    IN  header \o data

\* pixel = (r << 24) | (g << 16) | (b << 8), held as pixel >> 8: the low byte
\* of pixel is zero.  For r >= 128 the shift leaves the range of int; the
\* build keeps the bits, which the conversion to unsigned int then holds.
PixelWord(r, g, b) == BitOr(BitOr(r * 65536, g * 256), b)

\* *bp++ = pixel ? 0 : 1
PixelByte(pixel) == IF pixel # 0 THEN 0 ELSE 1

\* struct Surface loadBitmap(char *filename), on the bytes read from the file
loadBitmap(buf) ==
    LET width      == littleToBigEndian(buf, 18)
        height     == littleToBigEndian(buf, 22)
        dataOffset == littleToBigEndian(buf, 10)
    IN  Surface(width, height,
                [k \in 1..(width * height) |->
                    LET bufOffset == k - 1
                        b == buf[dataOffset + (bufOffset * 3) + 1]
                        g == buf[dataOffset + (bufOffset * 3) + 1 + 1]
                        r == buf[dataOffset + (bufOffset * 3) + 2 + 1]
                    IN  PixelByte(PixelWord(r, g, b))])

\* for (i < bitmap->height) for (j < bitmap->width) drawPoint(s, x + j, y + i, *p++)
BitmapPoints(bmp, x, y) ==
    [k \in 1..(bmp.width * bmp.height) |->
        <<x + ((k - 1) % bmp.width), y + ((k - 1) \div bmp.width), bmp.data[k]>>]

\* void drawBitmap(Surface *s, Surface *bitmap, int x, int y)
drawBitmap(surf, bmp, x, y) == PlotAll(surf, BitmapPoints(bmp, x, y), 1)

\* Pixel colours <<r, g, b>> of the files: white, black, grey, nearly black,
\* nearly white.
Colours == {<<255, 255, 255>>, <<0, 0, 0>>, <<128, 128, 128>>, <<0, 0, 1>>,
            <<255, 255, 254>>}

BitmapSizes == (1..MaxBitmap) \X (1..MaxBitmap)

InitBitmap ==
    /\ \E wh \in SurfaceSizes, b \in {0, 255} :
          s = Surface(wh[1], wh[2], [i \in 1..(wh[1] * wh[2]) |-> b])
    /\ bitmap = NoBitmap
    /\ brailleTab = [i \in 1..256 |-> 0]
    /\ screenBuffer = [state |-> "null", size |-> 0]
    /\ out = <<>>
    /\ line = NoLine
    /\ last = NoCall
    /\ fault = "none"

LoadBitmap(w, h, px) ==
    /\ bitmap' = loadBitmap(BmpFile(w, h, px))
    /\ last' = [op |-> "loadBitmap", args |-> <<w, h, px>>, ret |-> 0, pre |-> s]
    /\ UNCHANGED <<s, brailleTab, screenBuffer, out, line, fault>>

DrawBitmap(x, y) ==
    /\ s' = drawBitmap(s, bitmap, x, y)
    /\ last' = [op |-> "drawBitmap", args |-> <<x, y>>, ret |-> 0, pre |-> s]
    /\ UNCHANGED <<bitmap, brailleTab, screenBuffer, out, line, fault>>

\* A file is loaded once, then drawn once.
LoadOnce ==
    /\ last.op = "none"
    /\ \E wh \in BitmapSizes :
          \E px \in [1..(wh[1] * wh[2]) -> Colours] : LoadBitmap(wh[1], wh[2], px)

DrawOnce ==
    /\ last.op = "loadBitmap"
    /\ \E x \in (-MaxBitmap - 1)..(2 * s.width), y \in (-MaxBitmap - 1)..(4 * s.height) :
          DrawBitmap(x, y)

NextBitmap == LoadOnce \/ DrawOnce

SpecBitmap == InitBitmap /\ [][NextBitmap]_vars

---------------------------------------------------------------------------
(* Claims about loadBitmap and drawBitmap                                   *)

\* C3: loadBitmap stores 0 for a pixel exactly when the pixel is white
\* (r = g = b = 0xFF), and 1 for every other colour.
C3_WhiteIsZero ==
    last.op = "loadBitmap" =>
        \A k \in 1..(last.args[1] * last.args[2]) :
            bitmap.data[k] = (IF last.args[3][k] = <<255, 255, 255>> THEN 0 ELSE 1)

\* C6: after drawBitmap at any offset, each in-range surface pixel
\* (x+col, y+row) under the bitmap is lit iff the bitmap byte at
\* row*width + col is 1, and every other surface dot is unchanged.
C6_BlitFrame ==
    last.op = "drawBitmap" =>
        LET x == last.args[1]
            y == last.args[2]
        IN  \A p \in PixelsX(s) \X PixelsY(s) :
                LET col == p[1] - x
                    row == p[2] - y
                IN  IF col \in 0..(bitmap.width - 1) /\ row \in 0..(bitmap.height - 1)
                    THEN DotLit(s, p[1], p[2]) = (bitmap.data[row * bitmap.width + col + 1] = 1)
                    ELSE DotLit(s, p[1], p[2]) = DotLit(last.pre, p[1], p[2])


---------------------------------------------------------------------------
(* The braille table, render, initLouis and endLouis                        *)

\* Mutant of utf8Encode: the middle byte is cut from a mask one bit short.
utf8EncodeShortMask(utf8) ==
    LET enc1 == BitOr(224, BitAnd(utf8, 61440) \div 4096) % 256
        enc2 == BitOr(128, BitAnd(utf8, 1984) \div 64) % 256
        enc3 == BitOr(128, BitAnd(utf8, 63)) % 256
    IN  BitOr(BitOr(enc3 * 65536, enc2 * 256), enc1)

\* static unsigned int utf8Encode(int utf8): 0xE0 | ((utf8 & 0xF000) >> 12),
\* 0x80 | ((utf8 & 0x0FC0) >> 6), 0x80 | (utf8 & 0x003F), each an unsigned
\* char, packed as (enc3 << 16) | (enc2 << 8) | enc1
utf8Encode(utf8) ==
    LET enc1 == BitOr(224, BitAnd(utf8, 61440) \div 4096) % 256
        enc2 == BitOr(128, BitAnd(utf8, 4032) \div 64) % 256
        enc3 == BitOr(128, BitAnd(utf8, 63)) % 256
    IN  BitOr(BitOr(enc3 * 65536, enc2 * 256), enc1)

\* static void genBrailleTab(): brailleTab[i] = utf8Encode(0x2800 + i)
genBrailleTab == [i \in 1..256 |-> utf8Encode(10240 + (i - 1))]

\* memcpy(p, brailleTab + v, 3): the first three bytes of the int in memory,
\* least significant first (the packing of utf8Encode is for a little-endian
\* machine)
FirstThreeBytes(word) == <<word % 256, (word \div 256) % 256, (word \div 65536) % 256>>

RECURSIVE Glyphs(_, _, _)
\* for (i < len) { memcpy(p, brailleTab + *(s->data + i), 3); p += 3; }
Glyphs(tab, data, i) ==
    IF i > Len(data) THEN <<>>
    ELSE FirstThreeBytes(tab[data[i] + 1]) \o Glyphs(tab, data, i + 1)

\* "\x1b[?25l", "\x1b[H", "\x1b[2J", "\x1b[?25h"
HideCursor == <<27, 91, 63, 50, 53, 108>>

CursorHome == <<27, 91, 72>>

ClearScreen == <<27, 91, 50, 74>>

ShowCursor == <<27, 91, 63, 50, 53, 104>>

\* The bytes render stores through p and hands to write().
RenderBytes(tab, surf) ==
    HideCursor \o CursorHome \o Glyphs(tab, surf.data, 1) \o CursorHome

\* if (!screenBuffer) screenBuffer = malloc((s->width * s->height * 3) + 12):
\* a freed buffer is still a non-null pointer
RenderBuffer(buf, surf) ==
    IF buf.state = "null"
    THEN [state |-> "live", size |-> (surf.width * surf.height * 3) + 12]
    ELSE buf

\* The memory error of render's stores into buf, "none" when all of them
\* land inside a live allocation.
RenderFault(buf, surf) ==
    IF buf.state = "freed" THEN "use-after-free"
    ELSE IF buf.size < (surf.width * surf.height * 3) + 12 THEN "overflow"
    ELSE "none"

\* Surfaces handed to render: every size, the cells filled with a run of
\* distinct bytes.
RenderSurfaces ==
    {Surface(wh[1], wh[2], [i \in 1..(wh[1] * wh[2]) |-> (b + 37 * (i - 1)) % 256]) :
        wh \in SurfaceSizes, b \in SampleBytes}

InitRender ==
    /\ s = initSurface(1, 1)
    /\ bitmap = NoBitmap
    /\ brailleTab = [i \in 1..256 |-> 0]
    /\ screenBuffer = [state |-> "null", size |-> 0]
    /\ out = <<>>
    /\ line = NoLine
    /\ last = NoCall
    /\ fault = "none"

Running == last.op # "crashed"

\* void initLouis(): the table is generated (the terminal attributes are
\* not part of the model)
InitLouis ==
    /\ Running
    /\ brailleTab' = genBrailleTab
    /\ out' = <<>>
    /\ last' = [op |-> "initLouis", args |-> <<>>, ret |-> 0, pre |-> s]
    /\ fault' = "none"
    /\ UNCHANGED <<s, bitmap, screenBuffer, line>>

\* void render(Surface *s), its stores inside the buffer
Render(surf) ==
    /\ Running
    /\ LET buf == RenderBuffer(screenBuffer, surf)
       IN  /\ RenderFault(buf, surf) = "none"
           /\ screenBuffer' = buf
    /\ out' = RenderBytes(brailleTab, surf)
    /\ last' = [op |-> "render", args |-> <<>>, ret |-> 0, pre |-> surf]
    /\ fault' = "none"
    /\ UNCHANGED <<s, bitmap, brailleTab, line>>

\* void render(Surface *s), its stores outside a live buffer: undefined
\* behaviour.  The build either carries on, the bytes landing in memory the
\* buffer does not own and write() reading them back, or the process dies.
RenderOutside(surf, dies) ==
    /\ Running
    /\ RenderFault(RenderBuffer(screenBuffer, surf), surf) # "none"
    /\ fault' = RenderFault(RenderBuffer(screenBuffer, surf), surf)
    /\ out' = IF dies THEN <<>> ELSE RenderBytes(brailleTab, surf)
    /\ last' = [op |-> IF dies THEN "crashed" ELSE "render", args |-> <<>>,
                ret |-> 0, pre |-> surf]
    /\ UNCHANGED <<s, bitmap, brailleTab, screenBuffer, line>>

\* void endLouis(): free(screenBuffer) leaves the pointer as it is;
\* free(NULL) does nothing
EndLouis ==
    /\ Running
    /\ screenBuffer.state # "freed"
    /\ screenBuffer' = IF screenBuffer.state = "live"
                       THEN [screenBuffer EXCEPT !.state = "freed"]
                       ELSE screenBuffer
    /\ out' = ClearScreen \o ShowCursor
    /\ last' = [op |-> "endLouis", args |-> <<>>, ret |-> 0, pre |-> s]
    /\ fault' = "none"
    /\ UNCHANGED <<s, bitmap, brailleTab, line>>

\* void endLouis() on a freed buffer: a double free, undefined behaviour
EndLouisAgain(dies) ==
    /\ Running
    /\ screenBuffer.state = "freed"
    /\ out' = ClearScreen \o ShowCursor
    /\ last' = [op |-> IF dies THEN "crashed" ELSE "endLouis", args |-> <<>>,
                ret |-> 0, pre |-> s]
    /\ fault' = "double-free"
    /\ UNCHANGED <<s, bitmap, brailleTab, screenBuffer, line>>

NextRender ==
    \/ InitLouis
    \/ \E surf \in RenderSurfaces : Render(surf)
    \/ \E surf \in RenderSurfaces, dies \in BOOLEAN : RenderOutside(surf, dies)
    \/ EndLouis
    \/ \E dies \in BOOLEAN : EndLouisAgain(dies)

SpecRender == InitRender /\ [][NextRender]_vars

---------------------------------------------------------------------------
(* Claims about render                                                      *)

TabGenerated == brailleTab # [i \in 1..256 |-> 0]

\* The 3-byte UTF-8 encoding of code point 0x2800 + v.
ClaimGlyph(v) == <<226, 160 + (v \div 64), 128 + (v % 64)>>

RECURSIVE ClaimGlyphs(_, _)
ClaimGlyphs(data, i) ==
    IF i > Len(data) THEN <<>>
    ELSE ClaimGlyph(data[i]) \o ClaimGlyphs(data, i + 1)

C10_RenderInBuffer == fault \notin {"overflow", "use-after-free"}

=============================================================================
